---- MODULE Spec2Model ----
(***************************************************************************)
(* A model of hydronica/color-json: the slog handler ColorJSONHandler      *)
(* (handler.go).  Text is modelled byte by byte: a Go string is a sequence *)
(* of one-character strings, and the strings.Builder holds a sequence of   *)
(* cells.  A cell is a byte together with the role under which the code    *)
(* wrote it:                                                               *)
(*   "syn"  a byte of JSON syntax the handler writes itself  { } " : ,     *)
(*   "txt"  a byte of text taken from data (a key, a value, a literal)     *)
(*   "esc"  one whole ANSI colour escape sequence                          *)
(* The code's string surgery (content[:len-1], HasSuffix, TrimRight) looks *)
(* at the byte only, never at the role.                                    *)
(***************************************************************************)
EXTENDS Integers, Sequences, FiniteSets, TLC

VARIABLES handlers, mem, lineage, ret, calls, bufs, out

vars == <<handlers, mem, lineage, ret, calls, bufs, out>>

(***************************************************************************)
(* Bounds of the model.                                                    *)
(***************************************************************************)
MaxHandlers == 3

\* goroutines that call the handlers at the same time, one call each
MaxGoroutines == 2

(***************************************************************************)
(* Small helpers on sequences.                                             *)
(***************************************************************************)
Min(a, b) == IF a < b THEN a ELSE b

Front(s) == SubSeq(s, 1, Len(s) - 1)

Last(s) == s[Len(s)]

(***************************************************************************)
(* slog.Level values (log/slog): the handler compares them as integers.    *)
(***************************************************************************)
LevelDebug == -4

LevelInfo == 0

LevelWarn == 4

LevelError == 8

Levels == {LevelDebug, LevelInfo, LevelWarn, LevelError}

\* slog.Level.String() for the four named levels
LevelString(l) ==
    CASE l = LevelDebug -> <<"D", "E", "B", "U", "G">>
      [] l = LevelInfo -> <<"I", "N", "F", "O">>
      [] l = LevelWarn -> <<"W", "A", "R", "N">>
      [] l = LevelError -> <<"E", "R", "R", "O", "R">>

(***************************************************************************)
(* TerminalColor constants and the default palette.                        *)
(***************************************************************************)
reset == "ESC[0m"

bWhiteColor == "ESC[37;1m"

ColorDefault ==
    [Key |-> "ESC[90m", LevelInfo |-> "ESC[32m", LevelDebug |-> "ESC[37m",
     LevelWarn |-> "ESC[33m", LevelError |-> "ESC[31m"]

\* SrcFormat
SrcOff == 0

SrcFull == 1

SrcShortFile == 2

SrcLongFile == 3

(***************************************************************************)
(* Cells of the buffer.                                                    *)
(***************************************************************************)
Syn(s) == [i \in 1..Len(s) |-> [k |-> "syn", c |-> s[i]]]

Txt(s) == [i \in 1..Len(s) |-> [k |-> "txt", c |-> s[i]]]

\* string(color): an empty TerminalColor writes nothing
Col(color) == IF color = "" THEN <<>> ELSE <<[k |-> "esc", c |-> color]>>

\* regRmColors.ReplaceAllString(out, ""): the line without its colour codes
Strip(cells) == SelectSeq(cells, LAMBDA x : x.k # "esc")

\* the bytes of a line
Bytes(cells) == [i \in 1..Len(cells) |-> cells[i].c]

(***************************************************************************)
(* slog.Value and slog.Attr.  Kinds: String, Int64, Bool, Any (nil only),  *)
(* Group.  Each kind has its own field so no two kinds are ever compared.  *)
(***************************************************************************)
StringValue(s) == [kind |-> "String", str |-> s]

Int64Value(n) == [kind |-> "Int64", num |-> n]

BoolValue(b) == [kind |-> "Bool", bool |-> b]

NilValue == [kind |-> "Any"]

GroupValue(as) == [kind |-> "Group", group |-> as]

Attr(key, value) == [Key |-> key, Value |-> value]

\* slog.Attr{}: the empty-key marker a ReplaceAttr hook returns to drop an attribute
ZeroAttr == Attr(<<>>, NilValue)

(***************************************************************************)
(* Conversions: strconv.Itoa / fmt.Sprintf("%v") of an integer or a bool,  *)
(* fmt.Sprint of anything else.                                            *)
(***************************************************************************)
Digit(d) == <<"0", "1", "2", "3", "4", "5", "6", "7", "8", "9">>[d + 1]

RECURSIVE NatText(_)
NatText(n) == IF n < 10 THEN <<Digit(n)>> ELSE NatText(n \div 10) \o <<Digit(n % 10)>>

Itoa(n) == IF n < 0 THEN <<"-">> \o NatText(0 - n) ELSE NatText(n)

BoolText(b) == IF b THEN <<"t", "r", "u", "e">> ELSE <<"f", "a", "l", "s", "e">>

\* fmt.Sprint(v) of a value of the default branch: slog.Value.String and
\* Attr.String ("key=value"), a []Attr printed as [a=1 b=2]
RECURSIVE Sprint(_)
RECURSIVE SprintAttrs(_)
Sprint(v) ==
    CASE v.kind = "String" -> v.str
      [] v.kind = "Int64" -> Itoa(v.num)
      [] v.kind = "Bool" -> BoolText(v.bool)
      [] v.kind = "Any" -> <<"<", "n", "i", "l", ">">>
      [] v.kind = "Group" -> <<"[">> \o SprintAttrs(v.group) \o <<"]">>

SprintAttrs(as) ==
    IF as = <<>> THEN <<>>
    ELSE Head(as).Key \o <<"=">> \o Sprint(Head(as).Value)
         \o (IF Len(as) > 1 THEN <<" ">> ELSE <<>>) \o SprintAttrs(Tail(as))

(***************************************************************************)
(* cJSON writes one key/value member and a separator to the buffer.        *)
(***************************************************************************)
cJSON(buf, key, value, keyColor, valueColor) ==
    LET k == Col(keyColor) \o Syn(<<"\"">>) \o Txt(key) \o Syn(<<"\"">>)
             \o Col(reset) \o Syn(<<":">>)
        v == CASE value.kind = "String" ->
                    Col(valueColor) \o Syn(<<"\"">>) \o Txt(value.str)
                    \o Syn(<<"\"">>) \o Col(reset) \o Syn(<<",">>)
               [] value.kind = "Int64" ->
                    Col(valueColor) \o Txt(Itoa(value.num)) \o Col(reset) \o Syn(<<",">>)
               [] value.kind = "Bool" ->
                    Col(valueColor) \o Txt(BoolText(value.bool)) \o Col(reset) \o Syn(<<",">>)
               [] value.kind = "Any" ->
                    Col(valueColor) \o Txt(<<"n", "u", "l", "l">>) \o Col(reset) \o Syn(<<",">>)
               [] OTHER ->
                    Col(valueColor) \o Syn(<<"\"">>) \o Txt(Sprint(value))
                    \o Syn(<<"\"">>) \o Col(reset) \o Syn(<<",">>)
    IN  buf \o k \o v

(***************************************************************************)
(* HandlerOptions.ReplaceAttr is a caller-supplied hook.  Three hooks are  *)
(* modelled: "nil" (no hook configured), "drop" (returns slog.Attr{}, the  *)
(* empty-key marker, for the attribute keyed HookKey) and "group" (returns *)
(* an empty slog.Group under the same key for the attribute keyed HookKey).*)
(***************************************************************************)
HookKey == <<"x">>

Hooks == {"nil", "drop", "group"}

ReplaceAttr(hook, groups, attr) ==
    CASE hook = "drop" /\ attr.Key = HookKey -> ZeroAttr
      [] hook = "group" /\ attr.Key = HookKey -> Attr(attr.Key, GroupValue(<<>>))
      [] OTHER -> attr

\* if h.ReplaceAttr != nil { attr = h.ReplaceAttr(groups, attr) }
Replaced(h, groups, attr) ==
    IF h.ReplaceAttr # "nil" THEN ReplaceAttr(h.ReplaceAttr, groups, attr) ELSE attr

(***************************************************************************)
(* The record's time and source position.                                  *)
(***************************************************************************)
TwoDigits(n) == <<Digit(n \div 10), Digit(n % 10)>>

\* r.Time.Format(time.TimeOnly), the format NewHandler sets by default
TimeFormat(t) == TwoDigits(t.hour) \o <<":">> \o TwoDigits(t.min) \o <<":">> \o TwoDigits(t.sec)

\* runtime.CallersFrames([]uintptr{r.PC}).Next(): the frame of the one call site modelled
Frame(pc) == [Function |-> <<"p", ".", "f">>, File |-> <<"/", "d", "/", "s", ".", "g", "o">>, Line |-> 26]

\* filepath.Base of a path that does not end in a separator
RECURSIVE Base(_)
Base(path) ==
    IF \E i \in 1..Len(path) : path[i] = "/"
    THEN Base(Tail(path))
    ELSE path

(***************************************************************************)
(* The string surgery of the renderer, on bytes.                           *)
(***************************************************************************)
\* strings.HasSuffix(content, ",")
HasSuffixComma(content) == Len(content) > 0 /\ Last(content).c = ","

\* TrimRight left out: the line keeps its last separator
TrimRightNothing(s) == s

\* strings.TrimRight(s, ","): every trailing comma byte goes
RECURSIVE TrimRight(_)
TrimRight(s) == IF HasSuffixComma(s) THEN TrimRight(Front(s)) ELSE s

(***************************************************************************)
(* writeGroupedAttrs: the event's attributes under the handler's group     *)
(* path.                                                                   *)
(***************************************************************************)
RECURSIVE WriteInnermost(_, _, _, _)
WriteInnermost(h, buf, attrs, groups) ==
    IF attrs = <<>> THEN buf
    ELSE LET attr == Replaced(h, groups, Head(attrs))
         IN  WriteInnermost(h, cJSON(buf, attr.Key, attr.Value, h.ColorScheme.Key, bWhiteColor),
                            Tail(attrs), groups)

\* writeGroupedAttrs taking the group path from its inner end
RECURSIVE writeGroupedAttrsReversed(_, _, _, _, _)
writeGroupedAttrsReversed(h, buf, attrs, groups, depth) ==
    IF depth >= Len(groups)
    THEN WriteInnermost(h, buf, attrs, groups)
    ELSE LET groupName == groups[Len(groups) - depth]
             opened == buf \o Col(h.ColorScheme.Key) \o Syn(<<"\"">>) \o Txt(groupName)
                       \o Syn(<<"\"">>) \o Col(reset) \o Syn(<<":", "{">>)
             content == writeGroupedAttrsReversed(h, opened, attrs, groups, depth + 1)
             closed == IF HasSuffixComma(content) THEN Front(content) ELSE content
         IN  closed \o Syn(<<"}", ",">>)

RECURSIVE writeGroupedAttrs(_, _, _, _, _)
writeGroupedAttrs(h, buf, attrs, groups, depth) ==
    IF depth >= Len(groups)
    THEN WriteInnermost(h, buf, attrs, groups)
    ELSE LET groupName == groups[depth + 1]
             opened == buf \o Col(h.ColorScheme.Key) \o Syn(<<"\"">>) \o Txt(groupName)
                       \o Syn(<<"\"">>) \o Col(reset) \o Syn(<<":", "{">>)
             content == writeGroupedAttrs(h, opened, attrs, groups, depth + 1)
             closed == IF HasSuffixComma(content) THEN Front(content) ELSE content
         IN  closed \o Syn(<<"}", ",">>)

(***************************************************************************)
(* The writeAttrs closure of coloredJSON.                                  *)
(***************************************************************************)
\* the loop over attr.Value.Group() (lines 208-213)
RECURSIVE WriteGroupMembers(_, _, _)
WriteGroupMembers(h, buf, members) ==
    IF members = <<>> THEN buf
    ELSE LET groupAttr == Replaced(h, <<>>, Head(members))
         IN  WriteGroupMembers(h, cJSON(buf, groupAttr.Key, groupAttr.Value,
                                        h.ColorScheme.Key, bWhiteColor),
                               Tail(members))

\* one iteration of the loop over attrs when there is no group path
WriteFlatAttr(h, buf, attr0) ==
    LET attr == Replaced(h, <<>>, attr0)
    IN  IF attr.Value.kind = "Group"
        THEN LET opened == buf \o Col(h.ColorScheme.Key) \o Syn(<<"\"">>) \o Txt(attr.Key)
                           \o Syn(<<"\"">>) \o Col(reset) \o Syn(<<":", "{">>)
                 content == WriteGroupMembers(h, opened, attr.Value.group)
             IN  Front(content) \o Syn(<<"}", ",">>)
        ELSE cJSON(buf, attr.Key, attr.Value, h.ColorScheme.Key, bWhiteColor)

RECURSIVE WriteFlat(_, _, _)
WriteFlat(h, buf, attrs) ==
    IF attrs = <<>> THEN buf
    ELSE WriteFlat(h, WriteFlatAttr(h, buf, Head(attrs)), Tail(attrs))

writeAttrs(h, buf, attrs, groups) ==
    IF Len(groups) = 0
    THEN WriteFlat(h, buf, attrs)
    ELSE writeGroupedAttrs(h, buf, attrs, groups, 0)

(***************************************************************************)
(* coloredJSON: the line of one record.                                    *)
(***************************************************************************)
WriteLevel(h, buf, r) ==
    CASE r.Level = LevelInfo ->
            cJSON(buf, <<"l", "e", "v", "e", "l">>, StringValue(LevelString(r.Level)),
                  h.ColorScheme.Key, h.ColorScheme.LevelInfo)
      [] r.Level = LevelDebug ->
            cJSON(buf, <<"l", "e", "v", "e", "l">>, StringValue(LevelString(r.Level)),
                  h.ColorScheme.Key, h.ColorScheme.LevelDebug)
      [] r.Level = LevelWarn ->
            cJSON(buf, <<"l", "e", "v", "e", "l">>, StringValue(LevelString(r.Level)),
                  h.ColorScheme.Key, h.ColorScheme.LevelWarn)
      [] r.Level = LevelError ->
            cJSON(buf, <<"l", "e", "v", "e", "l">>, StringValue(LevelString(r.Level)),
                  h.ColorScheme.Key, h.ColorScheme.LevelError)
      [] OTHER -> buf

WriteSource(h, buf, r) ==
    IF r.PC # 0
    THEN LET f == Frame(r.PC)
         IN  CASE h.Source = SrcFull ->
                    buf \o Syn(<<"\"">>) \o Txt(<<"s", "o", "u", "r", "c", "e">>)
                    \o Syn(<<"\"", ":", "{", "\"">>) \o Txt(<<"f", "u", "n", "c", "t", "i", "o", "n">>)
                    \o Syn(<<"\"", ":", "\"">>) \o Txt(f.Function)
                    \o Syn(<<"\"", ",", "\"">>) \o Txt(<<"f", "i", "l", "e">>)
                    \o Syn(<<"\"", ":", "\"">>) \o Txt(f.File)
                    \o Syn(<<"\"", ",", "\"">>) \o Txt(<<"l", "i", "n", "e">>)
                    \o Syn(<<"\"", ":">>) \o Txt(Itoa(f.Line)) \o Syn(<<"}">>)
               [] h.Source = SrcShortFile ->
                    cJSON(buf, <<"f", "i", "l", "e">>,
                          StringValue(Base(f.File) \o <<":">> \o Itoa(f.Line)),
                          h.ColorScheme.Key, bWhiteColor)
               [] h.Source = SrcLongFile ->
                    cJSON(buf, <<"f", "i", "l", "e">>,
                          StringValue(f.File \o <<":">> \o Itoa(f.Line)),
                          h.ColorScheme.Key, bWhiteColor)
               [] OTHER -> buf
    ELSE buf

\* the loop over h.attrs (lines 230-237)
RECURSIVE WritePersisted(_, _, _)
WritePersisted(h, buf, attrs) ==
    IF attrs = <<>> THEN buf
    ELSE LET attr == Replaced(h, <<>>, Head(attrs))
         IN  WritePersisted(h, cJSON(buf, attr.Key, attr.Value, h.ColorScheme.Key, bWhiteColor),
                            Tail(attrs))

\* coloredJSON writing the persisted attributes after the record's attributes
coloredJSONPersistedLast(h, r, colors) ==
    LET b0 == Syn(<<"{">>)
        b1 == cJSON(b0, <<"t", "i", "m", "e">>, StringValue(TimeFormat(r.Time)),
                    h.ColorScheme.Key, bWhiteColor)
        b2 == WriteLevel(h, b1, r)
        b3 == cJSON(b2, <<"m", "s", "g">>, StringValue(r.Message), h.ColorScheme.Key, bWhiteColor)
        b4 == WriteSource(h, b3, r)
        b5 == IF Len(r.attrs) > 0 THEN writeAttrs(h, b4, r.attrs, h.groups) ELSE b4
        b6 == WritePersisted(h, b5, h.attrs)
    IN  TrimRight(b6) \o Syn(<<"}", "\n">>)

coloredJSON(h, r, colors) ==
    LET b0 == Syn(<<"{">>)
        b1 == cJSON(b0, <<"t", "i", "m", "e">>, StringValue(TimeFormat(r.Time)),
                    h.ColorScheme.Key, bWhiteColor)
        b2 == WriteLevel(h, b1, r)
        b3 == cJSON(b2, <<"m", "s", "g">>, StringValue(r.Message), h.ColorScheme.Key, bWhiteColor)
        b4 == WriteSource(h, b3, r)
        b5 == WritePersisted(h, b4, h.attrs)
        b6 == IF Len(r.attrs) > 0 THEN writeAttrs(h, b5, r.attrs, h.groups) ELSE b5
    IN  TrimRight(b6) \o Syn(<<"}", "\n">>)

(***************************************************************************)
(* Go slices.  mem is the heap of backing arrays; a slice is a reference   *)
(* to an array (0 for a nil slice) and a length; its capacity is the       *)
(* length of the array.  Two slices that name the same array share its     *)
(* storage.                                                                *)
(***************************************************************************)
NilSlice == [arr |-> 0, len |-> 0]

Cap(m, s) == IF s.arr = 0 THEN 0 ELSE Len(m[s.arr])

Elems(m, s) == IF s.arr = 0 THEN <<>> ELSE SubSeq(m[s.arr], 1, s.len)

\* make([]T, len, cap)
MakeSlice(m, zero, len, cap) ==
    [mem |-> Append(m, [i \in 1..cap |-> zero]), s |-> [arr |-> Len(m) + 1, len |-> len]]

\* copy(dst, src)
CopySlice(m, dst, src) ==
    LET n == Min(dst.len, src.len)
    IN  IF n = 0 THEN m
        ELSE [m EXCEPT ![dst.arr] = [i \in 1..Len(@) |-> IF i <= n THEN m[src.arr][i] ELSE @[i]]]

\* append(s, elems...): in place when the capacity allows, else a new array
\* (runtime.growslice: twice the old capacity, or what is needed when that is more)
AppendSlice(m, s, elems, zero) ==
    LET need == s.len + Len(elems)
        old == Cap(m, s)
        newcap == IF need > 2 * old THEN need ELSE 2 * old
    IN  IF elems = <<>> THEN [mem |-> m, s |-> s]
        ELSE IF need <= old
        THEN [mem |-> [m EXCEPT ![s.arr] =
                          [i \in 1..Len(@) |->
                              IF i > s.len /\ i <= need THEN elems[i - s.len] ELSE @[i]]],
              s |-> [arr |-> s.arr, len |-> need]]
        ELSE [mem |-> Append(m, [i \in 1..newcap |->
                                    IF i <= s.len THEN m[s.arr][i]
                                    ELSE IF i <= need THEN elems[i - s.len]
                                    ELSE zero]),
              s |-> [arr |-> Len(m) + 1, len |-> need]]

(***************************************************************************)
(* ColorJSONHandler.  handlers is the heap of handler objects; a handler   *)
(* holds its HandlerOptions by value and its attrs and groups as slices.   *)
(***************************************************************************)
\* the handler as coloredJSON reads it: the elements of h.attrs and h.groups
View(m, h) == [h EXCEPT !.attrs = Elems(m, h.attrs), !.groups = Elems(m, h.groups)]

\* NewHandler(w, opts) with opts.ColorScheme = ColorDefault
NewHandler(opts) ==
    [Level |-> opts.Level, Source |-> opts.Source, ReplaceAttr |-> opts.ReplaceAttr,
     ColorScheme |-> ColorDefault, attrs |-> NilSlice, groups |-> NilSlice]

\* Enabled with the comparison made strict
EnabledStrict(h, level) ==
    IF h.Level = <<>>
    THEN level > LevelInfo
    ELSE level > h.Level[1]

\* Enabled: h.Level is <<>> for a nil Leveler, <<l>> for a configured minimum
Enabled(h, level) ==
    IF h.Level = <<>>
    THEN level >= LevelInfo
    ELSE level >= h.Level[1]

\* Handle: the text handed to fmt.Fprint(h.out, ...)
Handle(m, h, r) == coloredJSON(View(m, h), r, h.ColorScheme)

\* WithAttrs appending to the receiver's own slice and storing it back
WithAttrsOnReceiver(hs, m, i, attrs) ==
    LET h == hs[i]
        newAttrs == AppendSlice(m, h.attrs, attrs, ZeroAttr)
    IN  [handlers |-> Append([hs EXCEPT ![i].attrs = newAttrs.s], [h EXCEPT !.attrs = newAttrs.s]),
         mem |-> newAttrs.mem]

\* WithAttrs: the heap after the call; the new handler is the last one
WithAttrs(hs, m, i, attrs) ==
    LET h == hs[i]
        made == MakeSlice(m, ZeroAttr, h.attrs.len, h.attrs.len + Len(attrs))
        copied == CopySlice(made.mem, made.s, h.attrs)
        newAttrs == AppendSlice(copied, made.s, attrs, ZeroAttr)
        newGroups == AppendSlice(newAttrs.mem, NilSlice, Elems(newAttrs.mem, h.groups), <<>>)
    IN  [handlers |-> Append(hs, [h EXCEPT !.attrs = newAttrs.s, !.groups = newGroups.s]),
         mem |-> newGroups.mem]

\* WithGroup: the heap after the call; the new handler is the last one
WithGroup(hs, m, i, name) ==
    LET h == hs[i]
        made == MakeSlice(m, <<>>, h.groups.len, h.groups.len + 1)
        copied == CopySlice(made.mem, made.s, h.groups)
        newGroups == AppendSlice(copied, made.s, <<name>>, <<>>)
        newAttrs == AppendSlice(newGroups.mem, NilSlice, Elems(newGroups.mem, h.attrs), ZeroAttr)
    IN  [handlers |-> Append(hs, [h EXCEPT !.attrs = newAttrs.s, !.groups = newGroups.s]),
         mem |-> newAttrs.mem]

(***************************************************************************)
(* Inputs.                                                                 *)
(***************************************************************************)
\* HandlerOptions given to NewHandler: the zero options, and each of the
\* minimum level, the source mode and the hook set to each of its values
NoOptions == [Level |-> <<>>, Source |-> SrcOff, ReplaceAttr |-> "nil"]

OptionSets ==
    {[NoOptions EXCEPT !.Level = <<l>>] : l \in Levels}
    \cup {[NoOptions EXCEPT !.Source = s] : s \in {SrcOff, SrcFull, SrcShortFile, SrcLongFile}}
    \cup {[NoOptions EXCEPT !.ReplaceAttr = k] : k \in Hooks}

\* arguments of WithAttrs
AttrsA == <<Attr(<<"u">>, StringValue(<<"7">>))>>

AttrsB == <<Attr(<<"x">>, Int64Value(1)), Attr(<<"v">>, NilValue)>>

AttrsInputs == {AttrsA, AttrsB}

\* arguments of WithGroup
GroupInputs == {<<"g">>, <<"h">>}

\* attribute lists of a record.  Record.AddAttrs omits empty groups, so no
\* record holds one.
AttrsInt == <<Attr(<<"a">>, Int64Value(42))>>

AttrsGroup ==
    <<Attr(<<"k">>, GroupValue(<<Attr(<<"m">>, StringValue(<<"G">>)),
                                 Attr(<<"x">>, Int64Value(200))>>)),
      Attr(<<"b">>, BoolValue(FALSE))>>

EventAttrs ==
    { <<>>,
      AttrsInt,
      <<Attr(<<"x">>, Int64Value(1)), Attr(<<"s">>, StringValue(<<"p">>))>>,
      <<Attr(<<"n">>, NilValue), Attr(<<"b">>, BoolValue(TRUE)), Attr(<<"c">>, Int64Value(-7))>>,
      <<Attr(<<"q">>, StringValue(<<"\"", "\n">>))>>,
      AttrsGroup,
      <<Attr(<<"k">>, GroupValue(<<Attr(<<"i">>, GroupValue(<<Attr(<<"z">>, Int64Value(1))>>))>>))>> }

Messages == {<<"h", "i">>, <<"a", "\"">>}

TestTime == [hour |-> 12, min |-> 34, sec |-> 56]

Record(level, msg, pc, attrs) ==
    [Time |-> TestTime, Level |-> level, Message |-> msg, PC |-> pc, attrs |-> attrs]

\* records without a call site: every level and every message without
\* attributes, and every attribute list; records with a call site: without
\* attributes, with one attribute, with a group-valued attribute
Records ==
    {Record(l, <<"h", "i">>, 0, <<>>) : l \in Levels}
    \cup {Record(LevelInfo, m, 0, <<>>) : m \in Messages}
    \cup {Record(LevelInfo, <<"h", "i">>, 0, as) : as \in EventAttrs}
    \cup {Record(LevelInfo, <<"h", "i">>, 1, as) : as \in {<<>>, AttrsInt, AttrsGroup}}

(***************************************************************************)
(* The state machine.  lineage records, for every handler, the handler it  *)
(* was derived from and what the derivation added; ret holds the call in   *)
(* progress and what it returns, until the caller takes the result.  Every *)
(* operation is synchronous: the caller makes its next call after the      *)
(* return.  Spec is the handler called by one caller, and it observes each *)
(* call by its result: the goroutines' frames (calls), the builders (bufs)  *)
(* and the destination's record of writes (out) belong to ConcSpec below    *)
(* and keep their initial values here.                                     *)
(***************************************************************************)
Idle == [op |-> "idle"]

Goroutines == 1..MaxGoroutines

Init ==
    /\ \E opts \in OptionSets : handlers = <<NewHandler(opts)>>
    /\ mem = <<>>
    /\ lineage = <<[parent |-> 0, attrs |-> <<>>, groups |-> <<>>]>>
    /\ ret = Idle
    /\ calls = [g \in Goroutines |-> Idle]
    /\ bufs = <<>>
    /\ out = <<>>

CallEnabled(i, level) ==
    /\ ret = Idle
    /\ ret' = [op |-> "Enabled", h |-> i, level |-> level, result |-> Enabled(handlers[i], level)]
    /\ UNCHANGED <<handlers, mem, lineage, calls, bufs, out>>

CallHandle(i, r) ==
    /\ ret = Idle
    /\ ret' = [op |-> "Handle", h |-> i, r |-> r, line |-> Handle(mem, handlers[i], r)]
    /\ UNCHANGED <<handlers, mem, lineage, calls, bufs, out>>

CallWithAttrs(i, attrs) ==
    /\ ret = Idle
    /\ Len(handlers) < MaxHandlers
    /\ LET after == WithAttrs(handlers, mem, i, attrs)
       IN  /\ handlers' = after.handlers
           /\ mem' = after.mem
    /\ lineage' = Append(lineage, [parent |-> i, attrs |-> attrs, groups |-> <<>>])
    /\ ret' = [op |-> "WithAttrs", h |-> i]
    /\ UNCHANGED <<calls, bufs, out>>

CallWithGroup(i, name) ==
    /\ ret = Idle
    /\ Len(handlers) < MaxHandlers
    /\ LET after == WithGroup(handlers, mem, i, name)
       IN  /\ handlers' = after.handlers
           /\ mem' = after.mem
    /\ lineage' = Append(lineage, [parent |-> i, attrs |-> <<>>, groups |-> <<name>>])
    /\ ret' = [op |-> "WithGroup", h |-> i]
    /\ UNCHANGED <<calls, bufs, out>>

Return ==
    /\ ret # Idle
    /\ ret' = Idle
    /\ UNCHANGED <<handlers, mem, lineage, calls, bufs, out>>

Next ==
    \/ Return
    \/ \E i \in 1..Len(handlers), level \in Levels : CallEnabled(i, level)
    \/ \E i \in 1..Len(handlers), r \in Records : CallHandle(i, r)
    \/ \E i \in 1..Len(handlers), attrs \in AttrsInputs : CallWithAttrs(i, attrs)
    \/ \E i \in 1..Len(handlers), name \in GroupInputs : CallWithGroup(i, name)

Spec == Init /\ [][Next]_vars

(***************************************************************************)
(* The handlers called by several goroutines at once.  All handlers share  *)
(* the destination w given to NewHandler (h.out is copied by WithAttrs and *)
(* WithGroup); out is the sequence of Write calls the destination has      *)
(* received, each with the error it returned.  bufs is the heap of         *)
(* strings.Builder objects; calls[g] is the frame of the call goroutine g  *)
(* is in.  A step of Handle is a stretch of its code between two reads of  *)
(* memory another goroutine could reach: the handler's attrs, its groups,  *)
(* the builder, the destination.  Each goroutine makes one call.           *)
(***************************************************************************)
\* the error values of the destination's Write; NoError is nil
NoError == "nil"

WriteErrors == {"ErrClosedPipe", "ErrShortWrite"}

\* buf := &strings.Builder{} handing out one builder to every call
NewBuilderShared(bs) ==
    IF bs = <<>>
    THEN [bufs |-> <<<<>>>>, b |-> 1]
    ELSE [bufs |-> [bs EXCEPT ![1] = <<>>], b |-> 1]

\* buf := &strings.Builder{} (line 162): a new builder, empty
NewBuilder(bs) == [bufs |-> Append(bs, <<>>), b |-> Len(bs) + 1]

\* coloredJSON from the opening brace to the source (lines 163-195), which
\* reads the record and the options the handler holds by value
coloredJSONHead(h, buf, r) ==
    LET b0 == buf \o Syn(<<"{">>)
        b1 == cJSON(b0, <<"t", "i", "m", "e">>, StringValue(TimeFormat(r.Time)),
                    h.ColorScheme.Key, bWhiteColor)
        b2 == WriteLevel(h, b1, r)
        b3 == cJSON(b2, <<"m", "s", "g">>, StringValue(r.Message), h.ColorScheme.Key, bWhiteColor)
    IN  WriteSource(h, b3, r)

\* coloredJSON from the record's attributes to the end (lines 239-249)
coloredJSONTail(h, buf, r) ==
    LET b6 == IF Len(r.attrs) > 0 THEN writeAttrs(h, buf, r.attrs, h.groups) ELSE buf
    IN  TrimRight(b6) \o Syn(<<"}", "\n">>)

\* fmt.Fprint(h.out, colorized): one call of the destination's Write with
\* the whole text; err is what the destination returns
Fprint(w, g, colorized, err) == Append(w, [g |-> g, p |-> colorized, err |-> err])

\* return err with the error dropped
HandleResultNil(err) == NoError

\* return err (line 128)
HandleResult(err) == err

\* WithAttrs up to newAttrs (lines 134-136): the heap and the new slice
WithAttrsNewAttrs(m, h, attrs) ==
    LET made == MakeSlice(m, ZeroAttr, h.attrs.len, h.attrs.len + Len(attrs))
        copied == CopySlice(made.mem, made.s, h.attrs)
    IN  AppendSlice(copied, made.s, attrs, ZeroAttr)

\* WithGroup up to newGroups (lines 149-151)
WithGroupNewGroups(m, h, name) ==
    LET made == MakeSlice(m, <<>>, h.groups.len, h.groups.len + 1)
        copied == CopySlice(made.mem, made.s, h.groups)
    IN  AppendSlice(copied, made.s, <<name>>, <<>>)

\* the options, the handlers and the records of the concurrent callers
ConcOptionSets == {NoOptions}

ConcRecords ==
    {Record(LevelWarn, <<"h", "i">>, 0, <<>>),
     Record(LevelInfo, <<"h", "i">>, 0,
            <<Attr(<<"x">>, Int64Value(1)), Attr(<<"s">>, StringValue(<<"p">>))>>)}

\* the handlers the goroutines share: NewHandler(w, opts), one derived from
\* it by WithAttrs and one derived from that by WithGroup
Shared(opts) ==
    LET h1 == <<NewHandler(opts)>>
        h2 == WithAttrs(h1, <<>>, 1, AttrsB)
    IN  WithGroup(h2.handlers, h2.mem, 2, <<"h">>)

\* the handlers every goroutine has: a handler a goroutine derives is its own
SharedHandlers == DOMAIN Shared(NoOptions).handlers

ConcInit ==
    /\ \E opts \in ConcOptionSets :
           /\ handlers = Shared(opts).handlers
           /\ mem = Shared(opts).mem
    /\ lineage = <<[parent |-> 0, attrs |-> <<>>, groups |-> <<>>],
                   [parent |-> 1, attrs |-> AttrsB, groups |-> <<>>],
                   [parent |-> 2, attrs |-> <<>>, groups |-> <<<<"h">>>>]>>
    /\ ret = Idle
    /\ calls = [g \in Goroutines |-> Idle]
    /\ bufs = <<>>
    /\ out = <<>>

\* g begins its call.  The goroutines are alike, so they are numbered in the
\* order in which they begin.
Begins(g) == calls[g] = Idle /\ \A k \in 1..(g - 1) : calls[k] # Idle

\* g calls Handle on handler i: the builder is made and written up to the source
HandleBegin(g, i, r) ==
    /\ Begins(g)
    /\ LET made == NewBuilder(bufs)
       IN  /\ bufs' = [made.bufs EXCEPT ![made.b] = coloredJSONHead(handlers[i], @, r)]
           /\ calls' = [calls EXCEPT ![g] = [op |-> "Handle", pc |-> "persisted", h |-> i, r |-> r,
                                             buf |-> made.b]]
    /\ UNCHANGED <<handlers, mem, lineage, ret, out>>

\* the loop over h.attrs (lines 230-237)
HandlePersisted(g) ==
    /\ calls[g].op = "Handle" /\ calls[g].pc = "persisted"
    /\ LET c == calls[g]
           h == handlers[c.h]
       IN  bufs' = [bufs EXCEPT ![c.buf] = WritePersisted(h, @, Elems(mem, h.attrs))]
    /\ calls' = [calls EXCEPT ![g].pc = "attrs"]
    /\ UNCHANGED <<handlers, mem, lineage, ret, out>>

\* the record's attributes under h.groups, and the end of the line
HandleAttrs(g) ==
    /\ calls[g].op = "Handle" /\ calls[g].pc = "attrs"
    /\ LET c == calls[g]
       IN  bufs' = [bufs EXCEPT ![c.buf] = coloredJSONTail(View(mem, handlers[c.h]), @, c.r)]
    /\ calls' = [calls EXCEPT ![g].pc = "write"]
    /\ UNCHANGED <<handlers, mem, lineage, ret, out>>

\* fmt.Fprint(h.out, colorized) and return err (lines 127-128); the
\* destination accepts the write or fails it
HandleWrite(g, err) ==
    /\ calls[g].op = "Handle" /\ calls[g].pc = "write"
    /\ out' = Fprint(out, g, bufs[calls[g].buf], err)
    /\ calls' = [calls EXCEPT ![g] = [op |-> "Handle", pc |-> "done", h |-> calls[g].h,
                                      r |-> calls[g].r, buf |-> calls[g].buf,
                                      result |-> HandleResult(err)]]
    /\ UNCHANGED <<handlers, mem, lineage, ret, bufs>>

\* g calls WithAttrs on handler i: newAttrs is built (lines 134-136)
WithAttrsBegin(g, i, attrs) ==
    /\ Begins(g)
    /\ LET newAttrs == WithAttrsNewAttrs(mem, handlers[i], attrs)
       IN  /\ mem' = newAttrs.mem
           /\ calls' = [calls EXCEPT ![g] = [op |-> "WithAttrs", pc |-> "build", h |-> i,
                                             added |-> attrs, s |-> newAttrs.s]]
    /\ UNCHANGED <<handlers, lineage, ret, bufs, out>>

\* the groups are copied and the new handler is returned (lines 138-143)
WithAttrsBuild(g) ==
    /\ calls[g].op = "WithAttrs" /\ calls[g].pc = "build"
    /\ LET c == calls[g]
           h == handlers[c.h]
           newGroups == AppendSlice(mem, NilSlice, Elems(mem, h.groups), <<>>)
       IN  /\ mem' = newGroups.mem
           /\ handlers' = Append(handlers, [h EXCEPT !.attrs = c.s, !.groups = newGroups.s])
           /\ lineage' = Append(lineage, [parent |-> c.h, attrs |-> c.added, groups |-> <<>>])
    /\ calls' = [calls EXCEPT ![g] = [op |-> "WithAttrs", pc |-> "done", h |-> calls[g].h,
                                      new |-> Len(handlers) + 1]]
    /\ UNCHANGED <<ret, bufs, out>>

\* g calls WithGroup on handler i: newGroups is built (lines 149-151)
WithGroupBegin(g, i, name) ==
    /\ Begins(g)
    /\ LET newGroups == WithGroupNewGroups(mem, handlers[i], name)
       IN  /\ mem' = newGroups.mem
           /\ calls' = [calls EXCEPT ![g] = [op |-> "WithGroup", pc |-> "build", h |-> i,
                                             added |-> name, s |-> newGroups.s]]
    /\ UNCHANGED <<handlers, lineage, ret, bufs, out>>

\* the attributes are copied and the new handler is returned (lines 153-158)
WithGroupBuild(g) ==
    /\ calls[g].op = "WithGroup" /\ calls[g].pc = "build"
    /\ LET c == calls[g]
           h == handlers[c.h]
           newAttrs == AppendSlice(mem, NilSlice, Elems(mem, h.attrs), ZeroAttr)
       IN  /\ mem' = newAttrs.mem
           /\ handlers' = Append(handlers, [h EXCEPT !.attrs = newAttrs.s, !.groups = c.s])
           /\ lineage' = Append(lineage, [parent |-> c.h, attrs |-> <<>>, groups |-> <<c.added>>])
    /\ calls' = [calls EXCEPT ![g] = [op |-> "WithGroup", pc |-> "done", h |-> calls[g].h,
                                      new |-> Len(handlers) + 1]]
    /\ UNCHANGED <<ret, bufs, out>>

ConcNext ==
    \/ \E g \in Goroutines, i \in SharedHandlers, r \in ConcRecords : HandleBegin(g, i, r)
    \/ \E g \in Goroutines : HandlePersisted(g)
    \/ \E g \in Goroutines : HandleAttrs(g)
    \/ \E g \in Goroutines, err \in {NoError} \cup WriteErrors : HandleWrite(g, err)
    \/ \E g \in Goroutines, i \in SharedHandlers : WithAttrsBegin(g, i, AttrsA)
    \/ \E g \in Goroutines : WithAttrsBuild(g)
    \/ \E g \in Goroutines, i \in SharedHandlers : WithGroupBegin(g, i, <<"g">>)
    \/ \E g \in Goroutines : WithGroupBuild(g)

ConcSpec == ConcInit /\ [][ConcNext]_vars

(***************************************************************************)
(* Properties.                                                             *)
(***************************************************************************)
\* the handler a call was made on, as the renderer reads it
RetHandler == View(mem, handlers[ret.h])

\* DEBUG < INFO < WARN < ERROR
Rank(l) ==
    CASE l = LevelDebug -> 1
      [] l = LevelInfo -> 2
      [] l = LevelWarn -> 3
      [] l = LevelError -> 4

\* the configured minimum severity, INFO when none is configured
Minimum(h) == IF h.Level = <<>> THEN LevelInfo ELSE h.Level[1]

\* C1: Enabled returns true exactly when the event's severity is at least the
\* configured minimum in the order DEBUG < INFO < WARN < ERROR, the minimum
\* being INFO when none is configured; and a call of Enabled leaves every
\* handler and every backing array as it was.
C1_EnabledIffAtLeastMinimum ==
    /\ [](ret.op = "Enabled" =>
            ret.result = (Rank(ret.level) >= Rank(Minimum(handlers[ret.h]))))
    /\ [][ret'.op = "Enabled" => UNCHANGED <<handlers, mem>>]_vars

\* Enabled has rejected DEBUG on a handler with no configured minimum
C1_Witness ==
    /\ ret.op = "Enabled"
    /\ handlers[ret.h].Level = <<>>
    /\ ret.level = LevelDebug
    /\ ret.result = FALSE

\* what a handler's lineage says it holds: its parent's context and its own addition
RECURSIVE LineageAttrs(_)
LineageAttrs(i) ==
    IF lineage[i].parent = 0 THEN <<>>
    ELSE LineageAttrs(lineage[i].parent) \o lineage[i].attrs

RECURSIVE LineageGroups(_)
LineageGroups(i) ==
    IF lineage[i].parent = 0 THEN <<>>
    ELSE LineageGroups(lineage[i].parent) \o lineage[i].groups

\* C2: context isolation.  Every handler holds exactly the attributes and
\* group names added along its own line of derivation (so never a sibling's
\* or a child's), the line it renders is the line of a handler holding only
\* those, and no call of WithAttrs or WithGroup changes the attributes or
\* the group path of a handler that exists already.
C2_ContextIsolation ==
    /\ [](\A i \in 1..Len(handlers) :
            /\ View(mem, handlers[i]).attrs = LineageAttrs(i)
            /\ View(mem, handlers[i]).groups = LineageGroups(i))
    /\ [](ret.op = "Handle" =>
            ret.line = coloredJSON([handlers[ret.h] EXCEPT !.attrs = LineageAttrs(ret.h),
                                                           !.groups = LineageGroups(ret.h)],
                                   ret.r, ColorDefault))
    /\ [][\A i \in 1..Len(handlers) : View(mem', handlers'[i]) = View(mem, handlers[i])]_vars

\* H1 = H.WithAttrs(A) renders after H2 = H.WithAttrs(B) was derived from the same H
C2_Witness ==
    /\ Len(handlers) = 3
    /\ lineage[2].parent = 1 /\ lineage[2].attrs = AttrsA
    /\ lineage[3].parent = 1 /\ lineage[3].attrs = AttrsB
    /\ ret.op = "Handle" /\ ret.h = 2
    /\ View(mem, handlers[2]).attrs = AttrsA

(***************************************************************************)
(* What a line is expected to hold, written with a separator between       *)
(* members instead of one after each.                                      *)
(***************************************************************************)
\* "name":{ in the handler's colours
GroupOpen(h, name) ==
    Col(h.ColorScheme.Key) \o Syn(<<"\"">>) \o Txt(name) \o Syn(<<"\"">>)
    \o Col(reset) \o Syn(<<":", "{">>)

RECURSIVE GroupOpens(_, _)
GroupOpens(h, groups) ==
    IF groups = <<>> THEN <<>> ELSE GroupOpen(h, Head(groups)) \o GroupOpens(h, Tail(groups))

RECURSIVE Closes(_)
Closes(n) == IF n = 0 THEN <<>> ELSE Syn(<<"}">>) \o Closes(n - 1)

\* one scalar member, without a separator
Member(h, a) == Front(cJSON(<<>>, a.Key, a.Value, h.ColorScheme.Key, bWhiteColor))

RECURSIVE JoinMembers(_, _)
JoinMembers(h, as) ==
    IF as = <<>> THEN <<>>
    ELSE IF Len(as) = 1 THEN Member(h, Head(as))
    ELSE Member(h, Head(as)) \o Syn(<<",">>) \o JoinMembers(h, Tail(as))

\* the record's attributes as the hook leaves them, inside the group path
HookedAttrs(h, r) == [i \in 1..Len(r.attrs) |-> Replaced(h, h.groups, r.attrs[i])]

\* C3: group nesting order.  A handler with the group path g1..gN (N >= 1)
\* rendering a record with at least one attribute ends its line with
\* g1:{g2:{...gN:{ opened in that order, the record's attributes in their
\* order inside the innermost object, exactly N closing braces, and then
\* the closing brace of the line; what precedes is the line of the same
\* record without attributes.
C3_GroupNestingOrder ==
    (ret.op = "Handle" /\ RetHandler.groups # <<>> /\ ret.r.attrs # <<>>) =>
        LET h == RetHandler
            tail == GroupOpens(h, h.groups) \o JoinMembers(h, HookedAttrs(h, ret.r))
                    \o Closes(Len(h.groups)) \o Syn(<<"}", "\n">>)
            p == Len(ret.line) - Len(tail)
        IN  /\ p >= 0
            /\ SubSeq(ret.line, p + 1, Len(ret.line)) = tail
            /\ TrimRight(SubSeq(ret.line, 1, p)) \o Syn(<<"}", "\n">>)
                 = coloredJSON(h, [ret.r EXCEPT !.attrs = <<>>], ColorDefault)

\* a handler with the path g, h has rendered a record with two attributes
C3_Witness ==
    /\ ret.op = "Handle"
    /\ RetHandler.groups = <<<<"g">>, <<"h">>>>
    /\ Len(ret.r.attrs) >= 2

(***************************************************************************)
(* A reader of compact JSON (RFC 8259 without insignificant whitespace),   *)
(* on the bytes of a line.  Each operator takes the index where a          *)
(* construct starts and gives the index after it, or 0 when the bytes are  *)
(* no such construct.                                                      *)
(***************************************************************************)
At(s, i) == IF i >= 1 /\ i <= Len(s) THEN s[i] ELSE ""

ControlChars == {"\n", "\t", "\r", "\f"}

EscapeChars == {"\"", "\\", "/", "b", "f", "n", "r", "t"}

Digits == {"0", "1", "2", "3", "4", "5", "6", "7", "8", "9"}

\* j is inside a string literal, after its opening quote
RECURSIVE StringEnd(_, _)
StringEnd(s, j) ==
    IF j > Len(s) THEN 0
    ELSE IF s[j] = "\"" THEN j + 1
    ELSE IF s[j] = "\\"
         THEN IF At(s, j + 1) \in EscapeChars THEN StringEnd(s, j + 2) ELSE 0
    ELSE IF s[j] \in ControlChars THEN 0
    ELSE StringEnd(s, j + 1)

RECURSIVE DigitsEnd(_, _)
DigitsEnd(s, j) == IF At(s, j) \in Digits THEN DigitsEnd(s, j + 1) ELSE j

NumberEnd(s, i) ==
    LET d == IF At(s, i) = "-" THEN i + 1 ELSE i
        e == IF At(s, d) = "0" THEN d + 1 ELSE DigitsEnd(s, d)
    IN  IF e = d THEN 0
        ELSE IF At(s, e) = "." 
             THEN (IF DigitsEnd(s, e + 1) = e + 1 THEN 0 ELSE DigitsEnd(s, e + 1))
             ELSE e

WordEnd(s, i, word) ==
    IF i + Len(word) - 1 <= Len(s) /\ SubSeq(s, i, i + Len(word) - 1) = word
    THEN i + Len(word) ELSE 0

RECURSIVE ValueEnd(_, _)
RECURSIVE MembersEnd(_, _)
ObjectEnd(s, i) ==
    IF At(s, i) # "{" THEN 0
    ELSE IF At(s, i + 1) = "}" THEN i + 2
    ELSE MembersEnd(s, i + 1)

ValueEnd(s, i) ==
    CASE At(s, i) = "\"" -> StringEnd(s, i + 1)
      [] At(s, i) = "{" -> ObjectEnd(s, i)
      [] At(s, i) = "t" -> WordEnd(s, i, <<"t", "r", "u", "e">>)
      [] At(s, i) = "f" -> WordEnd(s, i, <<"f", "a", "l", "s", "e">>)
      [] At(s, i) = "n" -> WordEnd(s, i, <<"n", "u", "l", "l">>)
      [] OTHER -> NumberEnd(s, i)

\* i is where a member starts, inside an object
MembersEnd(s, i) ==
    LET k == IF At(s, i) = "\"" THEN StringEnd(s, i + 1) ELSE 0
        v == IF k # 0 /\ At(s, k) = ":" THEN ValueEnd(s, k + 1) ELSE 0
    IN  IF v = 0 THEN 0
        ELSE IF At(s, v) = "," THEN MembersEnd(s, v + 1)
        ELSE IF At(s, v) = "}" THEN v + 1
        ELSE 0

\* one compact JSON object, then one newline, and nothing else
IsJSONLine(s) == Len(s) >= 3 /\ ObjectEnd(s, 1) = Len(s) /\ s[Len(s)] = "\n"

\* text that a JSON string literal can hold as it is
PlainText(s) == \A i \in 1..Len(s) : s[i] \notin {"\"", "\\"} \cup ControlChars

RECURSIVE PlainAttrs(_)
PlainAttrs(as) ==
    \A i \in 1..Len(as) :
        /\ PlainText(as[i].Key)
        /\ CASE as[i].Value.kind = "String" -> PlainText(as[i].Value.str)
             [] as[i].Value.kind = "Group" -> PlainAttrs(as[i].Value.group)
             [] OTHER -> TRUE

\* C4: the rendered line with its colour codes removed is a well-formed
\* compact JSON object followed by one newline, for every record, handler
\* context and source mode.  Stated for handlers without a hook and for
\* text that needs no escaping, where the members and their separators
\* alone decide it.
C4_LineIsJSON ==
    (/\ ret.op = "Handle"
     /\ RetHandler.ReplaceAttr = "nil"
     /\ PlainText(ret.r.Message)
     /\ PlainAttrs(RetHandler.attrs)
     /\ PlainAttrs(ret.r.attrs))
    => IsJSONLine(Bytes(Strip(ret.line)))

\* C5: trailing comma elision.  With the colour codes removed, no closing
\* brace the renderer writes (for the top-level object, for a group-path
\* name or for a group-valued attribute) comes immediately after a
\* separator comma.
C5_NoCommaBeforeClose ==
    ret.op = "Handle" =>
        LET s == Strip(ret.line)
        IN  \A i \in 1..(Len(s) - 1) :
                ~(s[i] = [k |-> "syn", c |-> ","] /\ s[i + 1] = [k |-> "syn", c |-> "}"])

\* a handler without group path has rendered a record whose first attribute
\* is a group with members, followed by a second attribute
C5_Witness ==
    /\ ret.op = "Handle"
    /\ RetHandler.groups = <<>> /\ RetHandler.ReplaceAttr = "nil"
    /\ Len(ret.r.attrs) = 2
    /\ ret.r.attrs[1].Value.kind = "Group"

(***************************************************************************)
(* The member keys of a line in the order they are written, each with the  *)
(* number of objects open around it (1 for a top-level member).            *)
(***************************************************************************)
RECURSIVE NextSynQuote(_, _)
NextSynQuote(s, j) ==
    IF j > Len(s) THEN 0
    ELSE IF s[j] = [k |-> "syn", c |-> "\""] THEN j
    ELSE NextSynQuote(s, j + 1)

RECURSIVE KeyScan(_, _, _, _)
KeyScan(s, i, depth, acc) ==
    IF i > Len(s) THEN acc
    ELSE IF s[i] = [k |-> "syn", c |-> "{"] THEN KeyScan(s, i + 1, depth + 1, acc)
    ELSE IF s[i] = [k |-> "syn", c |-> "}"] THEN KeyScan(s, i + 1, depth - 1, acc)
    ELSE IF s[i] = [k |-> "syn", c |-> "\""]
         THEN LET j == NextSynQuote(s, i + 1)
              IN  IF j = 0 THEN acc
                  ELSE IF j < Len(s) /\ s[j + 1] = [k |-> "syn", c |-> ":"]
                  THEN KeyScan(s, j + 2, depth,
                               Append(acc, [key |-> Bytes(SubSeq(s, i + 1, j - 1)), depth |-> depth]))
                  ELSE KeyScan(s, j + 1, depth, acc)
    ELSE KeyScan(s, i + 1, depth, acc)

Keys(line) == KeyScan(Strip(line), 1, 0, <<>>)

KeyTexts(ks) == [i \in 1..Len(ks) |-> ks[i].key]

At1(keys) == [i \in 1..Len(keys) |-> [key |-> keys[i], depth |-> 1]]

\* time, level, msg, and the source or file member when one is emitted
HeadKeys(h, r) ==
    At1(<<<<"t", "i", "m", "e">>, <<"l", "e", "v", "e", "l">>, <<"m", "s", "g">>>>)
    \o (CASE r.PC # 0 /\ h.Source = SrcFull ->
               <<[key |-> <<"s", "o", "u", "r", "c", "e">>, depth |-> 1],
                 [key |-> <<"f", "u", "n", "c", "t", "i", "o", "n">>, depth |-> 2],
                 [key |-> <<"f", "i", "l", "e">>, depth |-> 2],
                 [key |-> <<"l", "i", "n", "e">>, depth |-> 2]>>
          [] r.PC # 0 /\ h.Source \in {SrcShortFile, SrcLongFile} ->
               At1(<<<<"f", "i", "l", "e">>>>)
          [] OTHER -> <<>>)

\* the persisted attributes, in accumulation order, as the hook leaves them
PersistedKeys(h) == At1([i \in 1..Len(h.attrs) |-> Replaced(h, <<>>, h.attrs[i]).Key])

\* the group path g1..gN at depths 1..N and the record's attributes at depth N+1
GroupedKeys(h, r) ==
    [i \in 1..Len(h.groups) |-> [key |-> h.groups[i], depth |-> i]]
    \o [i \in 1..Len(r.attrs) |-> [key |-> HookedAttrs(h, r)[i].Key, depth |-> Len(h.groups) + 1]]

\* without a group path: each attribute's key, a group's member keys after its own
RECURSIVE FlatKeyTexts(_, _)
FlatKeyTexts(h, attrs) ==
    IF attrs = <<>> THEN <<>>
    ELSE LET a == Replaced(h, <<>>, Head(attrs))
         IN  <<a.Key>>
             \o (IF a.Value.kind = "Group"
                 THEN [i \in 1..Len(a.Value.group) |-> Replaced(h, <<>>, a.Value.group[i]).Key]
                 ELSE <<>>)
             \o FlatKeyTexts(h, Tail(attrs))

\* C6: field order.  The member keys of every line are, in this order: time,
\* level, msg, the source or file member if one is emitted, every persisted
\* attribute in accumulation order, then the record's attributes, flat or
\* under the group path.  time, level, msg, source or file and every
\* persisted attribute are members of the top-level object; the group path
\* opens after them, so no persisted attribute is inside it.
C6_FieldOrder ==
    ret.op = "Handle" =>
        LET h == RetHandler
            ks == Keys(ret.line)
            fixed == HeadKeys(h, ret.r) \o PersistedKeys(h)
                     \o (IF h.groups # <<>> /\ ret.r.attrs # <<>> THEN GroupedKeys(h, ret.r) ELSE <<>>)
            flat == IF h.groups = <<>> THEN FlatKeyTexts(h, ret.r.attrs) ELSE <<>>
        IN  /\ Len(ks) = Len(fixed) + Len(flat)
            /\ SubSeq(ks, 1, Len(fixed)) = fixed
            /\ KeyTexts(SubSeq(ks, Len(fixed) + 1, Len(ks))) = flat

\* a handler built by WithGroup and then WithAttrs has rendered a record
\* with attributes and a source position
C6_Witness ==
    /\ ret.op = "Handle" /\ ret.h = 3
    /\ Len(RetHandler.attrs) >= 2 /\ RetHandler.groups # <<>>
    /\ lineage[2].groups # <<>>
    /\ ret.r.attrs # <<>> /\ ret.r.PC # 0 /\ RetHandler.Source # SrcOff

\* sub occurs in s
Contains(s, sub) ==
    \E p \in 0..(Len(s) - Len(sub)) : SubSeq(s, p + 1, p + Len(sub)) = sub

\* C7: a group with no attributes inside it still renders as an empty
\* object.  (a) A handler with a group path, rendering a record without
\* attributes, ends its line with the nested group-path objects, the
\* innermost empty; (b) a group-valued attribute without members renders
\* as key:{}.
C7_EmptyGroupIsEmptyObject ==
    ret.op = "Handle" =>
        LET h == RetHandler
            tail == GroupOpens(h, h.groups) \o Closes(Len(h.groups)) \o Syn(<<"}", "\n">>)
        IN  /\ (h.groups # <<>> /\ ret.r.attrs = <<>>) =>
                  /\ Len(ret.line) >= Len(tail)
                  /\ SubSeq(ret.line, Len(ret.line) - Len(tail) + 1, Len(ret.line)) = tail
            /\ h.groups = <<>> =>
                  \A i \in 1..Len(ret.r.attrs) :
                      LET a == Replaced(h, <<>>, ret.r.attrs[i])
                      IN  a.Value = GroupValue(<<>>) =>
                              Contains(ret.line, GroupOpen(h, a.Key) \o Syn(<<"}">>))

\* the keys of the group-valued attributes of a list, at every depth
RECURSIVE GroupKeys(_)
GroupKeys(as) ==
    UNION {IF as[i].Value.kind = "Group"
           THEN {as[i].Key} \cup GroupKeys(as[i].Value.group)
           ELSE {} : i \in 1..Len(as)}

\* C8: a group-valued attribute of the record renders as a nested object of
\* its own, also when it is inside another group-valued attribute and also
\* when the handler has a group path; it is never a quoted string.
C8_GroupValueIsObject ==
    (ret.op = "Handle" /\ RetHandler.ReplaceAttr = "nil") =>
        \A key \in GroupKeys(ret.r.attrs) :
            /\ Contains(ret.line, GroupOpen(RetHandler, key))
            /\ ~Contains(Strip(ret.line),
                         Syn(<<"\"">>) \o Txt(key) \o Syn(<<"\"", ":", "\"">>))

\* C9: with a hook that returns the empty-key marker for the attributes
\* keyed HookKey, the line has the members of the same handler without the
\* hook, less those keyed HookKey, and no member with another key (so none
\* with the empty key); and no two separators are adjacent.
C9_SuppressedAttributeIsAbsent ==
    (ret.op = "Handle" /\ RetHandler.ReplaceAttr = "drop") =>
        LET h == [RetHandler EXCEPT !.ReplaceAttr = "nil"]
            all == KeyTexts(HeadKeys(h, ret.r) \o PersistedKeys(h)
                            \o (IF h.groups # <<>> /\ ret.r.attrs # <<>>
                                THEN GroupedKeys(h, ret.r) ELSE <<>>))
                   \o (IF h.groups = <<>> THEN FlatKeyTexts(h, ret.r.attrs) ELSE <<>>)
            s == Strip(ret.line)
        IN  /\ KeyTexts(Keys(ret.line)) = SelectSeq(all, LAMBDA key : key # HookKey)
            /\ \A i \in 1..(Len(s) - 1) :
                   ~(s[i] = [k |-> "syn", c |-> ","] /\ s[i + 1] = [k |-> "syn", c |-> ","])

\* the JSON string literal of a text: quotes, backslashes and control
\* characters escaped
JSONEscape(c) ==
    CASE c = "\"" -> <<"\\", "\"">>
      [] c = "\\" -> <<"\\", "\\">>
      [] c = "\n" -> <<"\\", "n">>
      [] c = "\t" -> <<"\\", "t">>
      [] c = "\r" -> <<"\\", "r">>
      [] c = "\f" -> <<"\\", "f">>
      [] OTHER -> <<c>>

RECURSIVE JSONEscaped(_)
JSONEscaped(s) == IF s = <<>> THEN <<>> ELSE JSONEscape(Head(s)) \o JSONEscaped(Tail(s))

JSONQuote(s) == <<"\"">> \o JSONEscaped(s) \o <<"\"">>

\* the JSON text of a scalar value
ScalarJSON(v) ==
    CASE v.kind = "String" -> JSONQuote(v.str)
      [] v.kind = "Int64" -> Itoa(v.num)
      [] v.kind = "Bool" -> BoolText(v.bool)
      [] v.kind = "Any" -> <<"n", "u", "l", "l">>

\* C10: scalar fidelity.  The message, and every scalar attribute of a
\* record rendered without hook and without group path, is in the line as
\* "key": followed by null, true or false, the decimal text of the number,
\* or the quoted string with every double quote and control character
\* escaped.
C10_ScalarFidelity ==
    ret.op = "Handle" =>
        LET bytes == Bytes(Strip(ret.line))
            h == RetHandler
        IN  /\ Contains(bytes, <<"\"", "m", "s", "g", "\"", ":">> \o JSONQuote(ret.r.Message))
            /\ (h.ReplaceAttr = "nil" /\ h.groups = <<>>) =>
                  \A i \in 1..Len(ret.r.attrs) :
                      ret.r.attrs[i].Value.kind # "Group" =>
                          Contains(bytes, <<"\"">> \o ret.r.attrs[i].Key \o <<"\"", ":">>
                                          \o ScalarJSON(ret.r.attrs[i].Value))

(***************************************************************************)
(* Properties of ConcSpec.                                                 *)
(***************************************************************************)
\* the Write calls the destination received from goroutine g
WritesOf(g) == {k \in 1..Len(out) : out[k].g = g}

\* C11: Handle makes exactly one write attempt per event and never
\* retries: a call that has not reached the write has made none, a call that
\* has returned has made exactly one, and it returned the error the
\* destination gave for that write, unchanged (no error when the write
\* succeeded).  No step of Handle changes a handler or the storage of its
\* attributes and groups.
C11_OneWriteErrorReturned ==
    /\ [](\A g \in Goroutines :
              calls[g].op = "Handle" =>
                  IF calls[g].pc = "done"
                  THEN /\ Cardinality(WritesOf(g)) = 1
                       /\ \A k \in WritesOf(g) : calls[g].result = out[k].err
                  ELSE WritesOf(g) = {})
    /\ [][\A g \in Goroutines :
              (calls'[g] # calls[g] /\ calls'[g].op = "Handle") => UNCHANGED <<handlers, mem>>]_vars

\* two calls have returned, one whose write failed and one whose write
\* succeeded
C11_Witness ==
    \E g1, g2 \in Goroutines :
        /\ calls[g1].op = "Handle" /\ calls[g1].pc = "done"
        /\ calls[g2].op = "Handle" /\ calls[g2].pc = "done"
        /\ calls[g1].result = "ErrClosedPipe"
        /\ calls[g2].result = NoError
        /\ Cardinality(WritesOf(g1)) = 1

\* the builder of a call in Handle holds the part of the line the call has
\* written so far
OwnText(c) ==
    LET h == handlers[c.h]
        head == coloredJSONHead(h, <<>>, c.r)
        persisted == WritePersisted(h, head, Elems(mem, h.attrs))
    IN  CASE c.pc = "persisted" -> head
          [] c.pc = "attrs" -> persisted
          [] OTHER -> Handle(mem, h, c.r)

\* C12: under every interleaving of concurrent Handle, WithAttrs and
\* WithGroup calls, (a) every unit written to the destination is, when it
\* is written (the last element of out, in every state), the complete line
\* of the event of the call that wrote it, ending in a newline; (b) the
\* calls in Handle hold different builders, and until its call returns each
\* builder holds what its own call has written and nothing else; (c) no
\* step changes an existing handler or an existing backing array.
C12_ConcurrentLines ==
    /\ [](out # <<>> =>
              LET c == calls[Last(out).g]
              IN  /\ c.op = "Handle" /\ c.pc = "done"
                  /\ Last(out).p = Handle(mem, handlers[c.h], c.r)
                  /\ Last(Last(out).p).c = "\n")
    /\ [](\A g1, g2 \in Goroutines :
              (calls[g1].op = "Handle" /\ calls[g2].op = "Handle" /\ g1 # g2) =>
                  calls[g1].buf # calls[g2].buf)
    /\ [](\A g \in Goroutines :
              (calls[g].op = "Handle" /\ calls[g].pc # "done") =>
                  bufs[calls[g].buf] = OwnText(calls[g]))
    /\ [][/\ \A i \in 1..Len(handlers) :
                 /\ i <= Len(handlers')
                 /\ handlers'[i] = handlers[i]
          /\ \A a \in 1..Len(mem) :
                 /\ a <= Len(mem')
                 /\ mem'[a] = mem[a]]_vars

\* a call has rendered the line of one record on the derived handler and
\* not yet written it, and a call that began after it, on the same handler
\* with another record, has written its line
C12_Witness ==
    \E g1, g2 \in Goroutines :
        /\ calls[g1].op = "Handle" /\ calls[g1].pc = "write" /\ calls[g1].h = 3
        /\ calls[g2].op = "Handle" /\ calls[g2].pc = "done" /\ calls[g2].h = 3
        /\ calls[g2].buf > calls[g1].buf
        /\ calls[g1].r # calls[g2].r
        /\ WritesOf(g2) # {}

====
